---- MODULE Spec2Model ----
(***************************************************************************)
(* Facility aggregation and caching layer (IFRCService), the analysis run  *)
(* of AccessibilityAnalysis and the boundary resolver (BoundaryService),   *)
(* as state machines.                                                      *)
(*                                                                         *)
(* Coordinates are integers in units of 10^-7 degree, so that toFixed(6)   *)
(* really rounds.  Strings are TLA+ strings; the empty string stands for   *)
(* a missing / falsy JSON string.                                          *)
(***************************************************************************)
EXTENDS Integers, Sequences, FiniteSets, TLC

VARIABLES
    \* ---- IFRCService (src/unnamed/part_005) ----
    cache,          \* Map<string, any>      : function from a set of keys
    cacheExpiry,    \* Map<string, number>   : function from a set of keys
    allFacilities,  \* IFRCFacility[]
    allCountries,   \* IFRCCountryInfo[]
    dataLoaded,     \* boolean
    now,            \* Date.now()
    calls,          \* the getter calls in flight, one slot per caller
    upstream,       \* what the registry answers (sequential specification)
    hist,           \* history: clearCache since the last getCountriesWithFacilities,
                    \* the last setCache of each key, a load that replaced a load
    lastEvent,      \* what the last operation did
    \* ---- AccessibilityAnalysis (src/src/sections/analysis/accessibility.tsx)
    an,             \* the component state and the position of the run
    \* ---- BoundaryService (src/src/services/boundaryService.ts) ----
    geojson,        \* the features of /geo/ne_countries_110m.geojson
    boundaryData,   \* null (<<>>) or the loaded collection (<<features>>)
    boundaryCache,  \* Map<string, CountryBoundary>
    bsCalls,        \* the calls waiting for their fetch, one slot per caller
    bsHist,         \* history since the last clearCache: fetches issued,
                    \* whether a fetch failed
    bsEvent,        \* what the last operation of BoundaryService did
    \* ---- the dashboard map (src/unnamed/part_004) ----
    dash,           \* the CountryBoundary component and its map
    \* ---- which of the two facility services the fields above belong to ----
    service         \* "IFRCService" (part_005) or "IFRCProxyService"
                    \* (src/src/services/ifrcProxyService.ts): the two
                    \* classes declare the same fields

bsVars == <<geojson, boundaryData, boundaryCache, bsCalls, bsHist, bsEvent>>

vars == <<cache, cacheExpiry, allFacilities, allCountries, dataLoaded, now,
          calls, upstream, hist, lastEvent, an, bsVars, dash, service>>

ifrcVars == <<cache, cacheExpiry, allFacilities, allCountries, dataLoaded, now,
              calls, upstream, hist, lastEvent, service>>

-----------------------------------------------------------------------------
(* Bounds of the model *)

MaxUnits == 2
MaxResp == 2
MaxCalls == 2
MaxDrift == 1
MaxPeriods == 1
MaxPending == 1
MaxFeatures == 2
MaxBsCalls == 2
MaxFetches == 2

(* Program constants *)

CACHE_DURATION == 10 * 60 * 1000
CoordScale == 10 ^ 7
NumSteps == 6

-----------------------------------------------------------------------------
(* JavaScript helpers *)

Abs(x) == IF x < 0 THEN 0 - x ELSE x

Digit(d) == <<"0", "1", "2", "3", "4", "5", "6", "7", "8", "9">>[d + 1]

RECURSIVE NatStr(_)
NatStr(n) == IF n < 10 THEN Digit(n) ELSE NatStr(n \div 10) \o Digit(n % 10)

RECURSIVE PadLeft(_, _)
PadLeft(s, w) == IF Len(s) >= w THEN s ELSE PadLeft("0" \o s, w)

\* a || b on strings: the empty string is falsy
OrStr(a, b) == IF a # "" THEN a ELSE b

\* a JSON number n -> [num |-> TRUE, v |-> n]; JSON null -> [num |-> FALSE, v |-> 0]
Num(n) == [num |-> TRUE, v |-> n]
JsNull == [num |-> FALSE, v |-> 0]

\* ToNumber as the relational operators apply it: null -> 0
ToNumber(c) == c.v

\* String(unit.id): a number prints in decimal, a string is itself
StringOf(id) == IF id.isNum THEN NatStr(id.n) ELSE id.s

\* Number.prototype.toFixed(6) of v * 10^-7: the sign is printed whenever
\* the value is negative, also when the digits round to zero
ToFixed6(v) ==
    LET m == (Abs(v) + 5) \div 10
    IN  (IF v < 0 THEN "-" ELSE "")
          \o NatStr(m \div 1000000) \o "." \o PadLeft(NatStr(m % 1000000), 6)

\* name.localeCompare over the country names of the model
NameRank(n) ==
    CASE n = "Chad" -> 1
      [] n = "Kenia" -> 2
      [] n = "Kenya" -> 3
      [] OTHER -> 4

LocaleCompare(a, b) == NameRank(a) - NameRank(b)

-----------------------------------------------------------------------------
(* Upstream records *)

NumId(n) == [isNum |-> TRUE, n |-> n, s |-> ""]
StrId(s) == [isNum |-> FALSE, n |-> 0, s |-> s]

NoCountry == [present |-> FALSE, name |-> "", iso |-> "", iso3 |-> ""]
Country(name, iso, iso3) ==
    [present |-> TRUE, name |-> name, iso |-> iso, iso3 |-> iso3]

Kenya == Country("Kenya", "KE", "KEN")
KenyaNoIso == Country("Kenya", "", "")
Kenia == Country("Kenia", "KE", "KEN")
Chad == Country("Chad", "TD", "TCD")

\* unit.location_geojson?.coordinates is [lon, lat]
Unit(id, hasCoords, coords, cd, loc, eng, code) ==
    [id |-> id, hasCoords |-> hasCoords, coords |-> coords,
     country_details |-> cd, local_branch_name |-> loc,
     english_branch_name |-> eng, type_code |-> code]

Nairobi == <<Num(368000000), Num(-13000000)>>
NairobiNear == <<Num(368000004), Num(-13000004)>>
Pole == <<Num(0), Num(90 * CoordScale)>>
BeyondPole == <<Num(0), Num(90 * CoordScale + 1)>>
BeyondDateLine == <<Num(-180 * CoordScale - 1), Num(0)>>
JustSouth == <<Num(0), Num(-4)>>
JustNorth == <<Num(0), Num(4)>>

Units ==
    { Unit(NumId(1), TRUE, Nairobi, Kenya, "X", "Y", 2),
      Unit(StrId("1"), TRUE, Pole, Chad, "W", "", 1),
      Unit(NumId(2), TRUE, Nairobi, Kenya, "Z", "Y", 2),
      Unit(NumId(2), TRUE, NairobiNear, Kenya, "X", "Y", 1),
      Unit(NumId(3), TRUE, BeyondPole, Kenya, "X", "Y", 2),
      Unit(NumId(3), TRUE, BeyondDateLine, Chad, "", "", 1),
      Unit(NumId(3), TRUE, Pole, Chad, "", "", 1),
      Unit(NumId(4), TRUE, Nairobi, NoCountry, "X", "Y", 2),
      Unit(NumId(4), FALSE, <<>>, Kenya, "X", "Y", 2),
      Unit(NumId(4), TRUE, <<Num(0), Num(0), Num(0)>>, Kenya, "X", "Y", 2),
      Unit(NumId(5), TRUE, Nairobi, KenyaNoIso, "V", "", 2),
      Unit(NumId(6), TRUE, Nairobi, Kenia, "U", "", 1),
      Unit(NumId(7), TRUE, JustSouth, Chad, "T", "T", 2),
      Unit(NumId(8), TRUE, JustNorth, Chad, "T", "T", 2),
      Unit(NumId(9), TRUE, <<JsNull, JsNull>>, Kenya, "X", "Y", 2) }

RECURSIVE SeqsUpTo(_, _)
SeqsUpTo(S, n) ==
    IF n = 0 THEN {<<>>}
    ELSE LET shorter == SeqsUpTo(S, n - 1)
         IN  shorter \cup {Append(s, x) : s \in shorter, x \in S}

Batches == SeqsUpTo(Units, MaxUnits)

-----------------------------------------------------------------------------
(* IFRCService.loadAllData: the body of units.forEach *)

\* faulty variant: only the latitude is tested
OutOfRangeLatOnly(lat, lon) ==
    \/ ToNumber(lat) < (0 - 90) * CoordScale
    \/ ToNumber(lat) > 90 * CoordScale

\* lat < -90 || lat > 90 || lon < -180 || lon > 180
OutOfRange(lat, lon) ==
    \/ ToNumber(lat) < (0 - 90) * CoordScale
    \/ ToNumber(lat) > 90 * CoordScale
    \/ ToNumber(lon) < (0 - 180) * CoordScale
    \/ ToNumber(lon) > 180 * CoordScale

\* countryDetails.iso3 || countryDetails.name
CountryKey(cd) == OrStr(cd.iso3, cd.name)

\* String(unit.id)
FacilityId(unit) == StringOf(unit.id)

\* unit.local_branch_name || unit.english_branch_name || 'Unknown'
FacilityName(unit) ==
    OrStr(unit.local_branch_name, OrStr(unit.english_branch_name, "Unknown"))

\* the name stored on the record:
\* unit.english_branch_name || unit.local_branch_name || 'Unknown'
StoredName(unit) ==
    OrStr(unit.english_branch_name, OrStr(unit.local_branch_name, "Unknown"))

\* `${lat.toFixed(6)},${lon.toFixed(6)},${countryDetails.name},${facilityName}`
LocationKey(lat, lon, countryName, facilityName) ==
    ToFixed6(lat.v) \o "," \o ToFixed6(lon.v) \o "," \o countryName
        \o "," \o facilityName

\* faulty variant: the seen-id test is lost
SeenIdNever(seenIds, facilityId) == FALSE

\* seenIds.has(facilityId)
SeenId(seenIds, facilityId) == facilityId \in seenIds

\* seenLocations.has(locationKey)
SeenLocation(seenLocations, locationKey) == locationKey \in seenLocations

MakeFacility(unit, lat, lon) ==
    [id |-> FacilityId(unit),
     name |-> StoredName(unit),
     latitude |-> lat.v,
     longitude |-> lon.v,
     type_code |-> unit.type_code,
     country_name |-> unit.country_details.name,
     country_iso |-> unit.country_details.iso,
     country_iso3 |-> unit.country_details.iso3]

\* countriesMap is kept in insertion order, as a JavaScript Map is
MapIndex(m, key) ==
    IF \E i \in 1..Len(m) : m[i].key = key
    THEN CHOOSE i \in 1..Len(m) : m[i].key = key
    ELSE 0

\* faulty variant: a country seen again is not counted again
CountCountryOnce(countriesMap, countryKey, cd) ==
    IF MapIndex(countriesMap, countryKey) = 0
    THEN Append(countriesMap,
                [key |-> countryKey,
                 info |-> [name |-> cd.name, iso |-> cd.iso,
                           iso3 |-> cd.iso3, facility_count |-> 1]])
    ELSE countriesMap

CountCountry(countriesMap, countryKey, cd) ==
    LET i == MapIndex(countriesMap, countryKey)
    IN  IF i = 0
        THEN Append(countriesMap,
                    [key |-> countryKey,
                     info |-> [name |-> cd.name, iso |-> cd.iso,
                               iso3 |-> cd.iso3, facility_count |-> 1]])
        ELSE [countriesMap EXCEPT
                  ![i].info.facility_count = countriesMap[i].info.facility_count + 1]

EmptyAcc ==
    [threw |-> FALSE, facilities |-> <<>>, seenIds |-> {},
     seenLocations |-> {}, countriesMap |-> <<>>]

ForEachBody(acc, unit) ==
    LET cd == unit.country_details
        coords == unit.coords
    IN  IF acc.threw THEN acc
        ELSE IF ~cd.present \/ ~unit.hasCoords \/ Len(coords) # 2 THEN acc
        ELSE
          LET lon == coords[1]
              lat == coords[2]
          IN  IF OutOfRange(lat, lon) THEN acc
              ELSE IF SeenId(acc.seenIds, FacilityId(unit)) THEN acc
              \* toFixed of a value that is no number is a TypeError
              ELSE IF ~lat.num \/ ~lon.num THEN [acc EXCEPT !.threw = TRUE]
              ELSE
                LET locationKey ==
                        LocationKey(lat, lon, cd.name, FacilityName(unit))
                IN  IF SeenLocation(acc.seenLocations, locationKey) THEN acc
                    ELSE [threw |-> FALSE,
                          facilities |->
                              Append(acc.facilities, MakeFacility(unit, lat, lon)),
                          seenIds |-> acc.seenIds \cup {FacilityId(unit)},
                          seenLocations |-> acc.seenLocations \cup {locationKey},
                          countriesMap |->
                              CountCountry(acc.countriesMap, CountryKey(cd), cd)]

RECURSIVE ForEach(_, _)
ForEach(units, acc) ==
    IF units = <<>> THEN acc
    ELSE ForEach(Tail(units), ForEachBody(acc, Head(units)))

\* Array.prototype.sort((a, b) => a.name.localeCompare(b.name)): stable
InsertSorted(sorted, c) ==
    LET after == {i \in 1..Len(sorted) : LocaleCompare(sorted[i].name, c.name) > 0}
        pos == IF after = {} THEN Len(sorted) + 1
               ELSE CHOOSE i \in after : \A j \in after : i <= j
    IN  SubSeq(sorted, 1, pos - 1) \o <<c>> \o SubSeq(sorted, pos, Len(sorted))

RECURSIVE SortByName(_, _)
SortByName(todo, sorted) ==
    IF todo = <<>> THEN sorted
    ELSE SortByName(Tail(todo), InsertSorted(sorted, Head(todo)))

MapValues(m) == [i \in 1..Len(m) |-> m[i].info]

\* what one load computes from a response: the facility list and the sorted
\* country index, or an exception
LoadResult(units) ==
    LET acc == ForEach(units, EmptyAcc)
    IN  [threw |-> acc.threw,
         facilities |-> acc.facilities,
         countries |-> SortByName(MapValues(acc.countriesMap), <<>>)]

-----------------------------------------------------------------------------
(* The service cache *)

CacheKey == "all_ifrc_data"

EmptyMap == [k \in {} |-> 0]

MapSet(m, k, v) == [x \in (DOMAIN m) \cup {k} |-> IF x = k THEN v ELSE m[x]]

MapDelete(m, k) == [x \in (DOMAIN m) \ {k} |-> m[x]]

\* setCache(key, data) at time t
SetCache(c, e, key, data, t) ==
    [cache |-> MapSet(c, key, data),
     cacheExpiry |-> MapSet(e, key, t + CACHE_DURATION)]

\* faulty variant: an entry expires one tick early, at its deadline
ExpiredAtDeadline(e, key, t) == key \in DOMAIN e /\ e[key] # 0 /\ t >= e[key]

\* expiry && Date.now() > expiry
Expired(e, key, t) == key \in DOMAIN e /\ e[key] # 0 /\ t > e[key]

\* getCache(key) at time t: the value returned (<<v>>, or <<>> for null) and
\* the maps after it.  Every value the services store is an object, hence
\* truthy, so cache.get(key) || null is null for a missing key only.
GetCache(c, e, key, t) ==
    IF Expired(e, key, t)
    THEN [hit |-> FALSE, value |-> <<>>, cache |-> MapDelete(c, key),
          cacheExpiry |-> MapDelete(e, key)]
    ELSE [hit |-> key \in DOMAIN c,
          value |-> IF key \in DOMAIN c THEN <<c[key]>> ELSE <<>>,
          cache |-> c, cacheExpiry |-> e]

-----------------------------------------------------------------------------
(* IFRCService: the getters, loadAllData and clearCache *)

Getters ==
    {"getCountriesWithFacilities", "getFacilitiesByCountry", "getAllFacilities",
     "getFacilitiesByType", "searchFacilities"}

Slots == 1..MaxCalls

\* a call: where it stands, and whether clearCache() ran while its request
\* was in flight
Idle == [pc |-> "idle", cleared |-> FALSE]

NoEvent ==
    [op |-> "none", fetched |-> FALSE, outcome |-> "none", failure |-> "none",
     afterClear |-> FALSE, ttlElapsed |-> FALSE]

\* the responses of the registry in the concurrent specification
RespUnits ==
    { Unit(NumId(1), TRUE, Nairobi, Kenya, "X", "Y", 2),
      Unit(StrId("1"), TRUE, Pole, Chad, "W", "", 1),
      Unit(NumId(9), TRUE, <<JsNull, JsNull>>, Kenya, "X", "Y", 2) }

RespBatches == SeqsUpTo(RespUnits, MaxResp)

\* LoadResult, tabulated over the responses of the concurrent specification
LoadTable == [b \in RespBatches |-> LoadResult(b)]

Processed(units) ==
    IF units \in RespBatches THEN LoadTable[units] ELSE LoadResult(units)

TransportFailure == [ok |-> FALSE, units |-> <<>>]
Response(units) == [ok |-> TRUE, units |-> units]

InitFields ==
    /\ cache = EmptyMap
    /\ cacheExpiry = EmptyMap
    /\ allFacilities = <<>>
    /\ allCountries = <<>>
    /\ dataLoaded = FALSE
    /\ now = 0
    /\ calls = [c \in Slots |-> Idle]
    /\ hist = [cleared |-> FALSE, stored |-> EmptyMap, raced |-> FALSE]
    /\ lastEvent = NoEvent

InitService ==
    /\ service = "IFRCService"
    /\ InitFields

\* faulty variant: the facilities are pushed onto the list the service already holds
InstallAppending(result, t) ==
    LET all == allFacilities \o result.facilities
        set == SetCache(cache, cacheExpiry, CacheKey,
                        [facilities |-> all, countries |-> result.countries], t)
    IN  [allFacilities |-> all,
         allCountries |-> result.countries,
         dataLoaded |-> TRUE,
         cache |-> set.cache,
         cacheExpiry |-> set.cacheExpiry]

\* lines 168-178: install the result and cache it under the combined key
Install(result, t) ==
    LET set == SetCache(cache, cacheExpiry, CacheKey,
                        [facilities |-> result.facilities,
                         countries |-> result.countries], t)
    IN  [allFacilities |-> result.facilities,
         allCountries |-> result.countries,
         dataLoaded |-> TRUE,
         cache |-> set.cache,
         cacheExpiry |-> set.cacheExpiry]

\* faulty variant: the loaded flag is raised before the response is processed
AbortMarkedLoaded ==
    [allFacilities |-> allFacilities,
     allCountries |-> allCountries,
     dataLoaded |-> TRUE,
     cache |-> cache,
     cacheExpiry |-> cacheExpiry]

\* lines 180-183: the catch block rethrows and touches nothing
Abort ==
    [allFacilities |-> allFacilities,
     allCountries |-> allCountries,
     dataLoaded |-> dataLoaded,
     cache |-> cache,
     cacheExpiry |-> cacheExpiry]

\* A getter is called: await this.loadAllData() up to its first await.
\* Lines 83-92 and the request of lines 97-102.
CallGetter(c, g) ==
    /\ service = "IFRCService"
    /\ calls[c].pc = "idle"
    /\ LET got == GetCache(cache, cacheExpiry, CacheKey, now)
           elapsed == CacheKey \in DOMAIN cacheExpiry
                        /\ now > cacheExpiry[CacheKey]
           afterClear == hist.cleared /\ g = "getCountriesWithFacilities"
           ev == [op |-> g, fetched |-> FALSE, outcome |-> "returned",
                  failure |-> "none", afterClear |-> afterClear,
                  ttlElapsed |-> elapsed]
       IN  /\ hist' = [hist EXCEPT !.cleared =
                          IF g = "getCountriesWithFacilities" THEN FALSE ELSE @]
           /\ IF dataLoaded
              THEN \* if (this.dataLoaded) return;
                   /\ lastEvent' = ev
                   /\ UNCHANGED <<cache, cacheExpiry, allFacilities,
                                  allCountries, dataLoaded, calls>>
              ELSE IF got.hit
              THEN \* adopt the cached pair
                   /\ allFacilities' = got.value[1].facilities
                   /\ allCountries' = got.value[1].countries
                   /\ dataLoaded' = TRUE
                   /\ cache' = got.cache
                   /\ cacheExpiry' = got.cacheExpiry
                   /\ lastEvent' = ev
                   /\ UNCHANGED calls
              ELSE \* cache miss: the request goes out, the call is suspended
                   /\ cache' = got.cache
                   /\ cacheExpiry' = got.cacheExpiry
                   /\ calls' = [calls EXCEPT ![c] =
                                   [pc |-> "pending", cleared |-> FALSE]]
                   /\ lastEvent' = [ev EXCEPT !.fetched = TRUE,
                                              !.outcome = "pending"]
                   /\ UNCHANGED <<allFacilities, allCountries, dataLoaded>>
    /\ UNCHANGED <<now, upstream, an, bsVars, dash, service>>

\* The request of call c settles with outcome o; loadAllData runs to its end
\* (lines 104-183) and the getter returns or rejects.
Respond(c, o) ==
    /\ service = "IFRCService"
    /\ calls[c].pc = "pending"
    /\ LET result == Processed(o.units)
           failed == ~o.ok \/ result.threw
           after == IF failed THEN Abort ELSE Install(result, now)
       IN  /\ allFacilities' = after.allFacilities
           /\ allCountries' = after.allCountries
           /\ dataLoaded' = after.dataLoaded
           /\ cache' = after.cache
           /\ cacheExpiry' = after.cacheExpiry
           /\ lastEvent' =
                  [op |-> "settle", fetched |-> TRUE,
                   outcome |-> IF failed THEN "rejected" ELSE "returned",
                   failure |-> IF ~o.ok THEN "transport"
                               ELSE IF result.threw THEN "parse" ELSE "none",
                   afterClear |-> FALSE, ttlElapsed |-> FALSE]
           /\ hist' = IF failed THEN hist
                      ELSE [hist EXCEPT
                               !.stored =
                                   MapSet(@, CacheKey,
                                          [t |-> now, v |-> after.cache[CacheKey]]),
                               !.raced = @ \/ dataLoaded]
    /\ calls' = [calls EXCEPT ![c] = Idle]
    /\ UNCHANGED <<now, upstream, an, bsVars, dash, service>>

\* the calls whose request is in flight are marked as overtaken by a clear
MarkCleared(cs) ==
    [c \in Slots |-> IF cs[c].pc = "pending"
                     THEN [cs[c] EXCEPT !.cleared = TRUE]
                     ELSE cs[c]]

\* faulty variant: the flag and the arrays are reset, the cache is kept
ClearCacheKeepingCache ==
    /\ UNCHANGED <<cache, cacheExpiry>>
    /\ dataLoaded' = FALSE
    /\ allFacilities' = <<>>
    /\ allCountries' = <<>>
    /\ hist' = [cleared |-> TRUE, stored |-> EmptyMap, raced |-> FALSE]
    /\ lastEvent' = [NoEvent EXCEPT !.op = "clearCache"]
    /\ calls' = MarkCleared(calls)
    /\ UNCHANGED <<now, upstream, an, bsVars, dash, service>>

\* clearCache(), lines 243-249
ClearCache ==
    /\ cache' = EmptyMap
    /\ cacheExpiry' = EmptyMap
    /\ dataLoaded' = FALSE
    /\ allFacilities' = <<>>
    /\ allCountries' = <<>>
    /\ hist' = [cleared |-> TRUE, stored |-> EmptyMap, raced |-> FALSE]
    /\ lastEvent' = [NoEvent EXCEPT !.op = "clearCache"]
    /\ calls' = MarkCleared(calls)
    /\ UNCHANGED <<now, upstream, an, bsVars, dash, service>>

\* time passes
Tick(d) ==
    /\ (now + d) % CACHE_DURATION <= MaxDrift
    /\ (now + d) \div CACHE_DURATION <= MaxPeriods
    /\ now' = now + d
    /\ lastEvent' = [NoEvent EXCEPT !.op = "tick"]
    /\ UNCHANGED <<cache, cacheExpiry, allFacilities, allCountries, dataLoaded,
                   calls, upstream, hist, an, bsVars, dash, service>>


-----------------------------------------------------------------------------
(* AccessibilityAnalysis: the component state, handleCountryChange,        *)
(* loadHealthcareFacilitiesForCountry, testBackendConnection and           *)
(* handleRunAnalysis.  null is "" for a string and <<>> for an object.      *)

AnCountries == {"Kenya", "Chad"}

AnalysisFailedMsg == "Analysis failed. Please try again."

\* the message of the Error thrown at line 247
BackendUnavailableMsg ==
    "Backend Earth Engine is not available. Please ensure the backend server is running and connected to Google Earth Engine."
FacilitiesFailedMsg == "Failed to load data"

\* a request of the run: not issued, in flight, or settled one of three ways
Outcomes == {"success", "unsuccessful", "rejected"}

NoRun ==
    [pc |-> "none", i |-> 0, country |-> "", hospitals |-> "",
     body |-> <<>>, layers |-> <<>>,
     analyzeCalls |-> 0, boundary |-> "none", tile |-> "none"]

\* how the last run ended: what it threw (logged at line 298), how many
\* times it called analyzeFromAsset, and a bit that flips at each end
NoLastRun ==
    [outcome |-> "none", thrown |-> "", analyzeCalls |-> 0, flip |-> FALSE]

\* the useState initial values, and the probe of the mount effect in flight;
\* layersFor is the countryName createGeeLayersFromAnalysis was called with
\* for the layers held in geeLayers
InitAnalysis ==
    [isLoading |-> FALSE,
     progress |-> 0,
     results |-> <<>>,
     backendAnalysisResults |-> <<>>,
     mapError |-> "",
     geeLayers |-> <<>>,
     layersFor |-> "",
     geeAssetId |-> <<>>,
     selectedCountry |-> "",
     hospitals |-> "",
     mapLoading |-> FALSE,
     backendConnected |-> "null",
     pendingLoads |-> [c \in AnCountries |-> 0],
     run |-> NoRun,
     lastRun |-> NoLastRun]

\* testBackendConnection, lines 138-145: the probe settles
ProbeSettles(ready) ==
    /\ an.backendConnected = "null"
    /\ an' = [an EXCEPT !.backendConnected = IF ready THEN "true" ELSE "false"]
    /\ UNCHANGED <<ifrcVars, bsVars, dash>>

\* handleCountryChange, lines 168-178, up to the await inside
\* loadHealthcareFacilitiesForCountry (lines 181-192)
HandleCountryChange(country) ==
    /\ country # an.selectedCountry
    /\ country # "" => an.pendingLoads[country] < MaxPending
    /\ an' = [an EXCEPT
                 !.selectedCountry = country,
                 !.hospitals = "",
                 !.mapError = "",
                 !.results = <<>>,
                 !.mapLoading = IF country = "" THEN @ ELSE TRUE,
                 !.pendingLoads =
                     IF country = "" THEN @
                     ELSE [@ EXCEPT ![country] = @ + 1]]
    /\ UNCHANGED <<ifrcVars, bsVars, dash>>

\* loadHealthcareFacilitiesForCountry, lines 192-230: getFacilitiesByType
\* settles for the load of `country`
FacilitiesSettle(country, ok) ==
    /\ an.pendingLoads[country] > 0
    /\ an' = [an EXCEPT
                 !.pendingLoads = [@ EXCEPT ![country] = @ - 1],
                 !.hospitals = IF ok THEN country ELSE "",
                 !.mapError = IF ok THEN @ ELSE FacilitiesFailedMsg,
                 !.mapLoading = FALSE]
    /\ UNCHANGED <<ifrcVars, bsVars, dash>>

\* the catch and finally blocks of handleRunAnalysis, lines 297-303
CatchFinally(a, error) ==
    [a EXCEPT !.mapError = AnalysisFailedMsg,
              !.isLoading = FALSE,
              !.progress = 0,
              !.lastRun = [outcome |-> "failed", thrown |-> error,
                           analyzeCalls |-> a.run.analyzeCalls,
                           flip |-> ~@.flip],
              !.run = NoRun]

\* the finally block alone, lines 300-303
Finally(a) ==
    [a EXCEPT !.isLoading = FALSE,
              !.progress = 0,
              !.lastRun = [outcome |-> "returned", thrown |-> "",
                           analyzeCalls |-> a.run.analyzeCalls,
                           flip |-> ~@.flip],
              !.run = NoRun]

\* lines 238-243: the reset at the start of a run
ResetForRun(a) ==
    [a EXCEPT !.isLoading = TRUE,
              !.progress = 0,
              !.results = <<>>,
              !.backendAnalysisResults = <<>>]

\* the Run Analysis button is clicked (enabled by line 380): lines 235-260
\* and the first timer of line 294
RunAnalysis ==
    /\ an.selectedCountry # ""
    /\ ~an.isLoading
    /\ LET a == ResetForRun(an)
       IN  an' = IF an.backendConnected # "true"
                 THEN CatchFinally(a, BackendUnavailableMsg)
                 ELSE [a EXCEPT !.progress = 1,
                                !.run = [NoRun EXCEPT
                                            !.pc = "timer",
                                            !.country = an.selectedCountry,
                                            !.hospitals = an.hospitals]]
    /\ UNCHANGED <<ifrcVars, bsVars, dash>>

\* faulty variant: the call is issued in the last stage
TimerFiresAnalyzingLast ==
    /\ an.run.pc = "timer"
    /\ LET i == an.run.i + 1
       IN  an' = IF i = NumSteps THEN Finally(an)
                 ELSE IF i = NumSteps - 1 /\ an.run.analyzeCalls = 0
                 THEN [an EXCEPT !.progress = i + 1,
                                 !.run.i = i,
                                 !.run.analyzeCalls = @ + 1,
                                 !.run.pc = "analyze"]
                 ELSE [an EXCEPT !.progress = i + 1,
                                 !.run.i = i,
                                 !.run.pc = "timer"]
    /\ UNCHANGED <<ifrcVars, bsVars, dash>>

\* the timer of line 294 fires: the next turn of the loop of line 259
TimerFires ==
    /\ an.run.pc = "timer"
    /\ LET i == an.run.i + 1
       IN  an' = IF i = NumSteps THEN Finally(an)
                 ELSE IF i = NumSteps - 2
                 THEN [an EXCEPT !.progress = i + 1,
                                 !.run.i = i,
                                 !.run.analyzeCalls = @ + 1,
                                 !.run.pc = "analyze"]
                 ELSE [an EXCEPT !.progress = i + 1,
                                 !.run.i = i,
                                 !.run.pc = "timer"]
    /\ UNCHANGED <<ifrcVars, bsVars, dash>>

AnalysisBodies ==
    { [success |-> TRUE, asset_id |-> "asset"],
      [success |-> TRUE, asset_id |-> ""],
      [success |-> FALSE, asset_id |-> ""] }

\* analyzeFromAsset rejects: lines 263, 297-303
AnalyzeRejects ==
    /\ an.run.pc = "analyze"
    /\ an' = CatchFinally(an, "Network Error")
    /\ UNCHANGED <<ifrcVars, bsVars, dash>>

\* the variant that issues the tile request along with the boundary request
AnalyzeResolvesIssuingBoth(body) ==
    /\ an.run.pc = "analyze"
    /\ LET a == [an EXCEPT !.backendAnalysisResults = <<body>>]
       IN  an' = IF body.success
                 THEN [a EXCEPT !.run.body = <<body>>,
                                !.run.boundary = "pending",
                                !.run.tile = IF body.asset_id # ""
                                             THEN "pending" ELSE "none",
                                !.run.pc = "boundary"]
                 ELSE CatchFinally(a, "Backend analysis failed")
    /\ UNCHANGED <<ifrcVars, bsVars, dash>>

\* analyzeFromAsset resolves: lines 263-273 and 289-291, and the first
\* request of createGeeLayersFromAnalysis (gee-layers-utils.ts line 18)
AnalyzeResolves(body) ==
    /\ an.run.pc = "analyze"
    /\ LET a == [an EXCEPT !.backendAnalysisResults = <<body>>]
       IN  an' = IF body.success
                 THEN [a EXCEPT !.run.body = <<body>>,
                                !.run.boundary = "pending",
                                !.run.pc = "boundary"]
                 ELSE CatchFinally(a, "Backend analysis failed")
    /\ UNCHANGED <<ifrcVars, bsVars, dash>>

\* lines 274-288 and the timer of line 294: the layers are back
LayersReturned(a, layers, assetId) ==
    [a EXCEPT !.geeLayers = layers,
              !.layersFor = a.run.country,
              !.geeAssetId = assetId,
              !.results = <<[country |-> a.run.country,
                             mapData |-> a.run.body[1].asset_id,
                             totalFacilities |-> a.run.hospitals]>>,
              !.run.layers = <<>>,
              !.run.pc = "timer"]

\* gee-layers-utils.ts lines 14 and 17-35: the layers after the boundary
\* request has settled
BoundaryLayers(outcome) ==
    IF outcome = "success" THEN <<"country_boundary">> ELSE <<>>

\* the variant in which a failed tile request discards what was built
TileLayersAllOrNothing(layers, outcome) ==
    IF outcome = "success" THEN Append(layers, "accessibility_main") ELSE <<>>

\* gee-layers-utils.ts lines 38-62: the layers after the tile request has
\* settled
TileLayers(layers, outcome) ==
    IF outcome = "success" THEN Append(layers, "accessibility_main") ELSE layers

\* createGeeLayersFromAnalysis: getCountryBoundary settles
\* (gee-layers-utils.ts lines 17-43 and 67)
BoundarySettles(outcome) ==
    /\ an.run.pc = "boundary"
    /\ LET a == [an EXCEPT !.run.boundary = outcome]
           layers == BoundaryLayers(outcome)
       IN  an' = IF an.run.body[1].asset_id # ""
                 THEN [a EXCEPT !.run.layers = layers,
                                !.run.tile = "pending",
                                !.run.pc = "tile"]
                 ELSE LayersReturned(a, layers, <<>>)
    /\ UNCHANGED <<ifrcVars, bsVars, dash>>

\* createGeeLayersFromAnalysis: getTileUrl settles
\* (gee-layers-utils.ts lines 40-64)
TileSettles(outcome) ==
    /\ an.run.pc = "tile"
    /\ LET a == [an EXCEPT !.run.tile = outcome]
       IN  an' = LayersReturned(a, TileLayers(an.run.layers, outcome),
                                <<an.run.body[1].asset_id>>)
    /\ UNCHANGED <<ifrcVars, bsVars, dash>>

-----------------------------------------------------------------------------
(* BoundaryService: String.prototype.includes, toLowerCase and trim         *)

\* s.includes(t)
Includes(s, t) ==
    \E i \in 1..(Len(s) - Len(t) + 1) : SubSeq(s, i, i + Len(t) - 1) = t

UpperCaseLetters == "ABCDEFGHIJKLMNOPQRSTUVWXYZ"
LowerCaseLetters == "abcdefghijklmnopqrstuvwxyz"

LowerChar(c) ==
    IF \E i \in 1..Len(UpperCaseLetters) : SubSeq(UpperCaseLetters, i, i) = c
    THEN LET i == CHOOSE i \in 1..Len(UpperCaseLetters) :
                      SubSeq(UpperCaseLetters, i, i) = c
         IN  SubSeq(LowerCaseLetters, i, i)
    ELSE c

\* s.toLowerCase()
RECURSIVE ToLowerCase(_)
ToLowerCase(s) ==
    IF Len(s) = 0 THEN s
    ELSE LowerChar(SubSeq(s, 1, 1)) \o ToLowerCase(SubSeq(s, 2, Len(s)))

\* s.trim()
RECURSIVE Trim(_)
Trim(s) ==
    IF Len(s) = 0 THEN s
    ELSE IF SubSeq(s, 1, 1) = " " THEN Trim(SubSeq(s, 2, Len(s)))
    ELSE IF SubSeq(s, Len(s), Len(s)) = " " THEN Trim(SubSeq(s, 1, Len(s) - 1))
    ELSE s

\* the variations table of matchCommonVariations, in the order of
\* Object.entries
variations ==
    << [canonical |-> "united states of america",
        alts |-> <<"usa", "united states", "us", "america">>],
       [canonical |-> "united kingdom",
        alts |-> <<"uk", "great britain", "britain", "england">>],
       [canonical |-> "russian federation", alts |-> <<"russia">>],
       [canonical |-> "china",
        alts |-> <<"peoples republic of china", "prc">>],
       [canonical |-> "south korea",
        alts |-> <<"republic of korea", "korea south">>],
       [canonical |-> "north korea",
        alts |-> <<"democratic peoples republic of korea", "korea north">>],
       [canonical |-> "democratic republic of the congo",
        alts |-> <<"congo drc", "dr congo", "zaire">>],
       [canonical |-> "republic of the congo",
        alts |-> <<"congo", "congo republic">>],
       [canonical |-> "czech republic", alts |-> <<"czechia">>],
       [canonical |-> "myanmar", alts |-> <<"burma">>],
       [canonical |-> "east timor", alts |-> <<"timor-leste">>],
       [canonical |-> "macedonia", alts |-> <<"north macedonia", "fyrom">>] >>

\* a.includes(b) || b.includes(a)
EitherIncludes(a, b) == Includes(a, b) \/ Includes(b, a)

\* alts.some(alt => alt.includes(name) || name.includes(alt))
SomeAlt(alts, name) == \E k \in 1..Len(alts) : EitherIncludes(alts[k], name)

\* the loop of matchCommonVariations from entry e on: the first entry one of
\* whose three tests fires decides
RECURSIVE MatchFrom(_, _, _)
MatchFrom(e, geoName, searchName) ==
    IF e > Len(variations) THEN FALSE
    ELSE LET canonical == variations[e].canonical
             alts == variations[e].alts
         IN  IF EitherIncludes(canonical, geoName)
             THEN SomeAlt(alts, searchName)
             ELSE IF EitherIncludes(canonical, searchName)
             THEN SomeAlt(alts, geoName)
             ELSE IF SomeAlt(alts, geoName)
             THEN SomeAlt(alts, searchName)
             ELSE MatchFrom(e + 1, geoName, searchName)

MatchCommonVariations(geoName, searchName) == MatchFrom(1, geoName, searchName)

\* Array.prototype.find, given the indices of the elements that satisfy the
\* test: the first of them, 0 when there is none
FindFirst(hits) ==
    IF hits = {} THEN 0 ELSE CHOOSE i \in hits : \A j \in hits : i <= j

ExactMatch(f, countryName) == f.name = countryName

CaseInsensitiveMatch(f, countryName) ==
    ToLowerCase(f.name) = ToLowerCase(countryName)

PartialMatch(f, countryName) ==
    LET name == ToLowerCase(f.name)
        searchName == ToLowerCase(countryName)
    IN  \/ Includes(name, searchName)
        \/ Includes(searchName, name)
        \/ MatchCommonVariations(name, searchName)


\* name.localeCompare over the feature names of the model
BoundaryNameRank(n) ==
    CASE n = "Niger" -> 2
      [] n = "NIGER" -> 3
      [] n = "Nigeria" -> 4
      [] n = "Republic of the Congo" -> 5
      [] n = "United States of America" -> 6
      [] OTHER -> 7

\* Array.prototype.sort((a, b) => a.name.localeCompare(b.name)): stable
InsertBoundary(sorted, b) ==
    LET after == {i \in 1..Len(sorted) :
                     BoundaryNameRank(sorted[i].name) > BoundaryNameRank(b.name)}
        pos == IF after = {} THEN Len(sorted) + 1
               ELSE CHOOSE i \in after : \A j \in after : i <= j
    IN  SubSeq(sorted, 1, pos - 1) \o <<b>> \o SubSeq(sorted, pos, Len(sorted))

RECURSIVE SortBoundaries(_, _)
SortBoundaries(todo, sorted) ==
    IF todo = <<>> THEN sorted
    ELSE SortBoundaries(Tail(todo), InsertBoundary(sorted, Head(todo)))

\* a feature of the collection: properties.name, the two ISO properties
\* ('' when absent) and its geometry
Feature(name, iso2, iso3, geometry) ==
    [name |-> name, iso2 |-> iso2, iso3 |-> iso3, geometry |-> geometry]

Features ==
    { Feature("United States of America", "US", "USA", "usa"),
      Feature("Republic of the Congo", "CG", "COG", "cog"),
      Feature("Niger", "NE", "NER", "ner"),
      Feature("Nigeria", "NG", "NGA", "nga"),
      Feature("NIGER", "", "", "ner-2") }

Datasets == SeqsUpTo(Features, MaxFeatures)

SearchNames ==
    {"USA", "United States", "Congo", "Congo Republic",
     "Niger", "niger", " Niger ", "Atlantis"}

\* lines 77-83: the CountryBoundary built from a feature
MakeBoundary(feature) ==
    [name |-> feature.name, iso2 |-> feature.iso2, iso3 |-> feature.iso3,
     geometry |-> feature.geometry]

\* toLowerCase().trim() and the two inexact tests, tabulated over the
\* features and the search names of the model
KeyTable == [n \in SearchNames |-> Trim(ToLowerCase(n))]

MatchTable ==
    [f \in Features, n \in SearchNames |->
        [anyCase |-> CaseInsensitiveMatch(f, n), partial |-> PartialMatch(f, n)]]

Matches(f, countryName) ==
    IF f \in Features /\ countryName \in SearchNames
    THEN MatchTable[f, countryName]
    ELSE [anyCase |-> CaseInsensitiveMatch(f, countryName),
          partial |-> PartialMatch(f, countryName)]

\* countryName.toLowerCase().trim()
BoundaryCacheKey(countryName) ==
    IF countryName \in SearchNames THEN KeyTable[countryName]
    ELSE Trim(ToLowerCase(countryName))

BsOps == {"loadBoundaryData", "getCountryBoundary", "getAllCountries"}

BsSlots == 1..MaxBsCalls

BsIdle == [pc |-> "idle", op |-> "", name |-> ""]

\* what the last operation did: its outcome and result, whether it issued a
\* fetch, hit the cache or met a failed fetch
NoBsEvent ==
    [op |-> "none", name |-> "", outcome |-> "none", result |-> <<>>,
     fetched |-> FALSE, hit |-> FALSE, threw |-> FALSE]

BsEvent(op, name) == [NoBsEvent EXCEPT !.op = op, !.name = name]

\* the history after operation op has completed with result: lastGet is the
\* last getCountryBoundary that completed with the collection at hand
Remember(h, op, name, result, threw) ==
    IF op = "getCountryBoundary" /\ ~threw
    THEN [h EXCEPT !.lastGet = <<[name |-> name, result |-> result]>>]
    ELSE h

InitBoundaryService ==
    /\ boundaryData = <<>>
    /\ boundaryCache = EmptyMap
    /\ bsCalls = [c \in BsSlots |-> BsIdle]
    /\ bsHist = [fetches |-> 0, failed |-> FALSE, lastGet |-> <<>>]
    /\ bsEvent = NoBsEvent

\* the variant that looks for a match ignoring case only after the partial
\* matches
ResolveBoundaryPartialFirst(data, countryName) ==
    LET idx == 1..Len(data)
        exact == FindFirst({i \in idx : ExactMatch(data[i], countryName)})
        anyCase == FindFirst({i \in idx : Matches(data[i], countryName).anyCase})
        partial == FindFirst({i \in idx : Matches(data[i], countryName).partial})
    IN  IF exact # 0 THEN exact
        ELSE IF partial # 0 THEN partial
        ELSE anyCase

\* lines 49-74: the index of the feature the three finds settle on, 0 if none
ResolveBoundary(data, countryName) ==
    LET idx == 1..Len(data)
        exact == FindFirst({i \in idx : ExactMatch(data[i], countryName)})
        anyCase == FindFirst({i \in idx : Matches(data[i], countryName).anyCase})
        partial == FindFirst({i \in idx : Matches(data[i], countryName).partial})
    IN  IF exact # 0 THEN exact
        ELSE IF anyCase # 0 THEN anyCase
        ELSE partial

\* the variant that remembers a miss as well
AfterLookupCachingMisses(c, countryName, data) ==
    LET i == ResolveBoundary(data, countryName)
        found == IF i = 0 THEN <<>> ELSE <<MakeBoundary(data[i])>>
    IN  [result |-> found,
         cache |-> MapSet(c, BoundaryCacheKey(countryName), found)]

\* lines 76-91 of getCountryBoundary, once the collection is at hand: the
\* value returned (<<>> is null) and the cache afterwards
AfterLookup(c, countryName, data) ==
    LET i == ResolveBoundary(data, countryName)
    IN  IF i = 0 THEN [result |-> <<>>, cache |-> c]
        ELSE [result |-> <<MakeBoundary(data[i])>>,
              cache |-> MapSet(c, BoundaryCacheKey(countryName),
                               MakeBoundary(data[i]))]

\* what operation op returns once loadBoundaryData has returned `data`
\* (lines 28, 49-91 and 105-113), and the cache it leaves
Completed(op, name, data) ==
    IF op = "getCountryBoundary"
    THEN LET after == AfterLookup(boundaryCache, name, data)
         IN  [outcome |-> "resolved", result |-> after.result,
              cache |-> after.cache]
    ELSE IF op = "getAllCountries"
    THEN [outcome |-> "resolved",
          result |-> SortBoundaries([i \in 1..Len(data) |-> MakeBoundary(data[i])],
                                    <<>>),
          cache |-> boundaryCache]
    ELSE [outcome |-> "resolved", result |-> data, cache |-> boundaryCache]

\* what operation op returns when loadBoundaryData has thrown (lines 29-32,
\* 92-95 and 114-117)
Thrown(op) ==
    IF op = "loadBoundaryData"
    THEN [outcome |-> "rejected", result |-> <<>>, cache |-> boundaryCache]
    ELSE [outcome |-> "resolved", result |-> <<>>, cache |-> boundaryCache]

\* an operation of BoundaryService is called and runs to its first await
\* that waits for the network, or to its end (lines 18, 41-47, 103)
BsCalled(c, op, name) ==
    /\ bsCalls[c].pc = "idle"
    /\ op # "getCountryBoundary" => name = ""
    /\ LET cacheKey == BoundaryCacheKey(name)
           ev == BsEvent(op, name)
       IN  IF op = "getCountryBoundary" /\ cacheKey \in DOMAIN boundaryCache
           THEN /\ bsEvent' = [ev EXCEPT !.outcome = "resolved",
                                         !.result = <<boundaryCache[cacheKey]>>,
                                         !.hit = TRUE]
                /\ bsHist' = Remember(bsHist, op, name,
                                      <<boundaryCache[cacheKey]>>, FALSE)
                /\ UNCHANGED <<boundaryData, boundaryCache, bsCalls>>
           ELSE IF boundaryData # <<>>
           THEN LET done == Completed(op, name, boundaryData[1])
                IN  /\ bsEvent' = [ev EXCEPT !.outcome = done.outcome,
                                             !.result = done.result]
                    /\ boundaryCache' = done.cache
                    /\ bsHist' = Remember(bsHist, op, name, done.result, FALSE)
                    /\ UNCHANGED <<boundaryData, bsCalls>>
           ELSE /\ bsHist.fetches < MaxFetches
                /\ bsHist' = [bsHist EXCEPT !.fetches = @ + 1]
                /\ bsCalls' = [bsCalls EXCEPT ![c] =
                                  [pc |-> "fetching", op |-> op, name |-> name]]
                /\ bsEvent' = [ev EXCEPT !.outcome = "pending",
                                         !.fetched = TRUE]
                /\ UNCHANGED <<boundaryData, boundaryCache>>

\* a caller other than the dashboard map calls the operation
BsCall(c, op, name) ==
    /\ BsCalled(c, op, name)
    /\ UNCHANGED <<geojson, ifrcVars, an, dash>>

\* the fetch of call c settles (lines 21-32) and the operation runs to its end
BsFetchSettled(c, ok) ==
    /\ bsCalls[c].pc = "fetching"
    /\ LET op == bsCalls[c].op
           name == bsCalls[c].name
           done == IF ok THEN Completed(op, name, geojson) ELSE Thrown(op)
       IN  /\ boundaryData' = IF ok THEN <<geojson>> ELSE boundaryData
           /\ boundaryCache' = done.cache
           /\ bsEvent' = [BsEvent(op, name) EXCEPT
                             !.outcome = done.outcome,
                             !.result = done.result,
                             !.fetched = TRUE,
                             !.threw = ~ok]
           /\ bsHist' = [Remember(bsHist, op, name, done.result, ~ok)
                            EXCEPT !.failed = @ \/ ~ok]
    /\ bsCalls' = [bsCalls EXCEPT ![c] = BsIdle]

\* the fetch of a caller other than the dashboard map settles
BsFetchSettles(c, ok) ==
    /\ ~dash.loads[c]
    /\ BsFetchSettled(c, ok)
    /\ UNCHANGED <<geojson, ifrcVars, an, dash>>

\* BoundaryService.clearCache(), lines 166-169
BsClearCache ==
    /\ boundaryCache' = EmptyMap
    /\ boundaryData' = <<>>
    /\ bsHist' = [fetches |-> 0, failed |-> FALSE, lastGet |-> <<>>]
    /\ bsEvent' = BsEvent("clearCache", "")
    /\ UNCHANGED <<bsCalls, geojson, ifrcVars, an, dash>>

-----------------------------------------------------------------------------
(* The dashboard map: the CountryBoundary component of part_004, lines      *)
(* 119-234, with the module-level globalBoundaryLayer of line 16.  mapLayers *)
(* are the layers on the Leaflet map that carry _isBoundaryLayer, in the    *)
(* order they were added; loads[c] says that call c of BoundaryService was  *)
(* made by loadBoundary.                                                    *)

DashCountries == {"Niger", "Nigeria", "Atlantis"}

InitDashboard ==
    [countryName |-> "",
     mapLayers |-> <<>>,
     globalBoundaryLayer |-> <<>>,
     boundaryLayerRef |-> <<>>,
     loads |-> [c \in BsSlots |-> FALSE]]

\* clearAllBoundaryLayers, lines 130-164: the global layer, the tracked layer
\* and every layer marked _isBoundaryLayer are removed
ClearAllBoundaryLayers(d) ==
    [d EXCEPT !.mapLayers = <<>>,
              !.globalBoundaryLayer = <<>>,
              !.boundaryLayerRef = <<>>]

\* lines 180-215 after the await: the boundary getCountryBoundary(name)
\* resolved with (<<>> is null) is put on the map
ShowBoundary(d, boundary, name) ==
    IF boundary # <<>> /\ boundary[1].geometry # ""
    THEN LET geoJsonLayer == [boundary |-> boundary[1].name, for |-> name]
         IN  [d EXCEPT !.mapLayers = Append(@, geoJsonLayer),
                       !.boundaryLayerRef = <<geoJsonLayer>>,
                       !.globalBoundaryLayer = <<geoJsonLayer>>]
    ELSE d

\* the effect of lines 166-224 runs with countryName = name: a country was
\* selected or deselected (dashboard_page.tsx lines 127-136, 184), or the map
\* was rendered again with a new onBoundaryLoad (line 398).  A call that
\* needs no fetch resolves before any other event is handled.
BoundaryEffect(name) ==
    /\ LET cleared ==
               [ClearAllBoundaryLayers(dash) EXCEPT !.countryName = name]
       IN  IF name = ""
           THEN /\ dash' = cleared
                /\ UNCHANGED <<boundaryData, boundaryCache, bsCalls, bsHist,
                               bsEvent>>
           ELSE \E c \in BsSlots :
                   /\ BsCalled(c, "getCountryBoundary", name)
                   /\ dash' = IF bsCalls'[c].pc = "fetching"
                              THEN [cleared EXCEPT !.loads[c] = TRUE]
                              ELSE ShowBoundary(cleared, bsEvent'.result, name)
    /\ UNCHANGED <<geojson, ifrcVars, an>>

\* the fetch of a loadBoundary call settles: getCountryBoundary returns the
\* boundary or null (a failed fetch is caught at boundaryService.ts lines
\* 92-95) and lines 182-219 run
BoundaryLoadSettles(c, ok) ==
    /\ dash.loads[c]
    /\ BsFetchSettled(c, ok)
    /\ dash' = [ShowBoundary(dash, bsEvent'.result, bsCalls[c].name)
                   EXCEPT !.loads[c] = FALSE]
    /\ UNCHANGED <<geojson, ifrcVars, an>>

-----------------------------------------------------------------------------
(* IFRCService: the getters that filter the loaded list.  An argument that  *)
(* is left out (undefined) is "".                                           *)

\* Array.prototype.filter over the facility list
RECURSIVE FilterFacilities(_, _)
FilterFacilities(facilities, keep) ==
    IF facilities = <<>> THEN <<>>
    ELSE IF Head(facilities) \in keep
         THEN <<Head(facilities)>> \o FilterFacilities(Tail(facilities), keep)
         ELSE FilterFacilities(Tail(facilities), keep)

Elements(facilities) == {facilities[i] : i \in 1..Len(facilities)}

\* getFacilitiesByCountry, lines 193-198, after loadAllData
GetFacilitiesByCountry(facilities, countryName) ==
    FilterFacilities(facilities,
                     {f \in Elements(facilities) : f.country_name = countryName})

\* the search terms and the country arguments the getters are called with
SearchTerms == {"", " ", "  ", "y", "Y", "w", "UN", "q", " y"}

SearchCountries == {"", "Kenya", "Chad", "Kenia", "Nowhere"}

\* the names the sample units are stored under
FacilityNames == {StoredName(u) : u \in Units \cup RespUnits}

\* facility.name.toLowerCase().includes(term), tabulated over the samples
TermTable ==
    [n \in FacilityNames |->
        [t \in SearchTerms |-> Includes(ToLowerCase(n), ToLowerCase(t))]]

\* facility.name.toLowerCase().includes(searchTerm.toLowerCase())
NameIncludesTerm(name, searchTerm) ==
    IF name \in FacilityNames /\ searchTerm \in SearchTerms
    THEN TermTable[name][searchTerm]
    ELSE Includes(ToLowerCase(name), ToLowerCase(searchTerm))

\* faulty variant: the names are compared as they are written
SearchFacilitiesCaseSensitive(facilities, searchTerm, countryName) ==
    LET inCountry ==
            IF countryName # ""
            THEN FilterFacilities(facilities,
                     {f \in Elements(facilities) : f.country_name = countryName})
            ELSE facilities
    IN  IF Trim(searchTerm) = "" THEN inCountry
        ELSE FilterFacilities(inCountry,
                 {f \in Elements(inCountry) : Includes(f.name, searchTerm)})

\* searchFacilities, lines 215-228, after loadAllData
SearchFacilities(facilities, searchTerm, countryName) ==
    LET inCountry ==
            IF countryName # ""
            THEN FilterFacilities(facilities,
                     {f \in Elements(facilities) : f.country_name = countryName})
            ELSE facilities
    IN  IF Trim(searchTerm) = "" THEN inCountry
        ELSE FilterFacilities(inCountry,
                 {f \in Elements(inCountry) :
                     NameIncludesTerm(f.name, searchTerm)})

-----------------------------------------------------------------------------
(* Specifications *)

InitOthers ==
    /\ an = InitAnalysis
    /\ geojson = <<>>
    /\ InitBoundaryService
    /\ dash = InitDashboard

\* concurrent getter calls against a registry that answers anything
Init ==
    /\ InitService
    /\ upstream = <<>>
    /\ InitOthers

Next ==
    \/ \E c \in Slots, g \in Getters : CallGetter(c, g)
    \/ \E c \in Slots, b \in RespBatches : Respond(c, Response(b))
    \/ \E c \in Slots : Respond(c, TransportFailure)
    \/ ClearCache
    \/ \E d \in {1, CACHE_DURATION} : Tick(d)

Spec == Init /\ [][Next]_vars

\* one caller against a registry that holds one batch
InitLoad ==
    /\ InitService
    /\ upstream \in Batches
    /\ InitOthers

NextLoad ==
    \/ \E g \in Getters : CallGetter(1, g)
    \/ Respond(1, Response(upstream))
    \/ Respond(1, TransportFailure)
    \/ ClearCache

SpecLoad == InitLoad /\ [][NextLoad]_vars


\* setCache / getCache called directly, on both services' keys
ProxyCacheKey == "all_ifrc_proxy_data"

CacheKeys == {CacheKey, ProxyCacheKey}

Pair(result) == [facilities |-> result.facilities, countries |-> result.countries]

CacheValues ==
    {Pair(LoadTable[b]) : b \in {x \in RespBatches : ~LoadTable[x].threw}}

SetCacheOp(k, v) ==
    /\ LET set == SetCache(cache, cacheExpiry, k, v, now)
       IN  /\ cache' = set.cache
           /\ cacheExpiry' = set.cacheExpiry
    /\ hist' = [hist EXCEPT !.stored = MapSet(@, k, [t |-> now, v |-> v])]
    /\ lastEvent' = [op |-> "setCache", key |-> k, value |-> <<v>>]
    /\ UNCHANGED <<allFacilities, allCountries, dataLoaded, now, calls,
                   upstream, an, bsVars, dash, service>>

GetCacheOp(k) ==
    /\ LET got == GetCache(cache, cacheExpiry, k, now)
       IN  /\ cache' = got.cache
           /\ cacheExpiry' = got.cacheExpiry
           /\ lastEvent' = [op |-> "getCache", key |-> k, value |-> got.value]
    /\ UNCHANGED <<allFacilities, allCountries, dataLoaded, now, calls,
                   upstream, hist, an, bsVars, dash, service>>

NextCache ==
    \/ \E k \in CacheKeys, v \in CacheValues : SetCacheOp(k, v)
    \/ \E k \in CacheKeys : GetCacheOp(k)
    \/ ClearCache
    \/ \E d \in {1, CACHE_DURATION} : Tick(d)

SpecCache == Init /\ [][NextCache]_vars


\* IFRCProxyService (ifrcProxyService.ts): the same fields, setCache,
\* getCache, getters and clearCache; loadAllData asks the backend proxy

\* a property the response body does not have
Undefined == "undefined"

\* what the two requests of Promise.all resolve with, or the rejection of
\* either: body is what /api/ifrc/countries and /api/ifrc/facilities hold,
\* and hasCountries, hasFacilities say whether the bodies have the property
ProxyResponses ==
    {[ok |-> TRUE, hasCountries |-> h[1], hasFacilities |-> h[2], body |-> v] :
        v \in CacheValues,
        h \in {<<TRUE, TRUE>>, <<FALSE, TRUE>>, <<TRUE, FALSE>>}}
    \cup {[ok |-> FALSE, hasCountries |-> FALSE, hasFacilities |-> FALSE,
           body |-> <<>>]}

InitProxyService ==
    /\ service = "IFRCProxyService"
    /\ InitFields

\* a getter of the proxy service is called: loadAllData up to its await,
\* lines 64-83
ProxyCallGetter(c, g) ==
    /\ service = "IFRCProxyService"
    /\ calls[c].pc = "idle"
    /\ LET got == GetCache(cache, cacheExpiry, ProxyCacheKey, now)
           ev == [NoEvent EXCEPT !.op = g, !.outcome = "returned"]
       IN  IF dataLoaded
           THEN /\ lastEvent' = ev
                /\ UNCHANGED <<cache, cacheExpiry, allFacilities, allCountries,
                               dataLoaded, calls>>
           ELSE IF got.hit
           THEN /\ allFacilities' = got.value[1].facilities
                /\ allCountries' = got.value[1].countries
                /\ dataLoaded' = TRUE
                /\ cache' = got.cache
                /\ cacheExpiry' = got.cacheExpiry
                /\ lastEvent' = ev
                /\ UNCHANGED calls
           ELSE /\ cache' = got.cache
                /\ cacheExpiry' = got.cacheExpiry
                /\ calls' = [calls EXCEPT ![c] =
                                [pc |-> "pending", cleared |-> FALSE]]
                /\ lastEvent' = [ev EXCEPT !.fetched = TRUE,
                                           !.outcome = "pending"]
                /\ UNCHANGED <<allFacilities, allCountries, dataLoaded>>
    /\ UNCHANGED <<now, upstream, hist, an, bsVars, dash, service>>

\* Promise.all settles with o and loadAllData runs to its end, lines 85-100:
\* reading .length of an array the body did not hold throws at line 89,
\* after the flag was set and before setCache
ProxyRespond(c, o) ==
    /\ service = "IFRCProxyService"
    /\ calls[c].pc = "pending"
    /\ LET threw == ~o.hasCountries \/ ~o.hasFacilities
           set == SetCache(cache, cacheExpiry, ProxyCacheKey,
                           [facilities |-> o.body.facilities,
                            countries |-> o.body.countries], now)
       IN  /\ IF ~o.ok
              THEN UNCHANGED <<allFacilities, allCountries, dataLoaded, cache,
                               cacheExpiry>>
              ELSE /\ allCountries' = IF o.hasCountries THEN o.body.countries
                                      ELSE Undefined
                   /\ allFacilities' = IF o.hasFacilities
                                       THEN o.body.facilities ELSE Undefined
                   /\ dataLoaded' = TRUE
                   /\ cache' = IF threw THEN cache ELSE set.cache
                   /\ cacheExpiry' = IF threw THEN cacheExpiry
                                     ELSE set.cacheExpiry
           /\ lastEvent' =
                  [NoEvent EXCEPT
                      !.op = "settle", !.fetched = TRUE,
                      !.outcome = IF ~o.ok \/ threw THEN "rejected"
                                  ELSE "returned",
                      !.failure = IF ~o.ok THEN "transport"
                                  ELSE IF threw THEN "parse" ELSE "none"]
    /\ calls' = [calls EXCEPT ![c] = Idle]
    /\ UNCHANGED <<now, upstream, hist, an, bsVars, dash, service>>

\* either service, with concurrent getter calls
InitServices ==
    /\ InitService \/ InitProxyService
    /\ upstream = <<>>
    /\ InitOthers

NextServices ==
    \/ Next
    \/ \E c \in Slots, g \in Getters : ProxyCallGetter(c, g)
    \/ \E c \in Slots, o \in ProxyResponses : ProxyRespond(c, o)

SpecServices == InitServices /\ [][NextServices]_vars


\* the analysis page
NextAnalysis ==
    \/ \E ready \in BOOLEAN : ProbeSettles(ready)
    \/ \E c \in AnCountries \cup {""} : HandleCountryChange(c)
    \/ \E c \in AnCountries, ok \in BOOLEAN : FacilitiesSettle(c, ok)
    \/ RunAnalysis
    \/ TimerFires
    \/ AnalyzeRejects
    \/ \E body \in AnalysisBodies : AnalyzeResolves(body)
    \/ \E outcome \in Outcomes : BoundarySettles(outcome)
    \/ \E outcome \in Outcomes : TileSettles(outcome)

SpecAnalysis == Init /\ [][NextAnalysis]_vars

\* the same page when every timer fires and every request of a run settles:
\* setTimeout callbacks run, and the HTTP client of backendApiService.ts
\* lines 4-7 rejects a request that is not answered within its timeout
SpecAnalysisFair ==
    /\ SpecAnalysis
    /\ WF_vars(TimerFires)
    /\ WF_vars(AnalyzeRejects \/ \E body \in AnalysisBodies : AnalyzeResolves(body))
    /\ WF_vars(\E outcome \in Outcomes : BoundarySettles(outcome))
    /\ WF_vars(\E outcome \in Outcomes : TileSettles(outcome))


\* one caller of BoundaryService against a collection of features
InitResolve ==
    /\ InitService
    /\ upstream = <<>>
    /\ an = InitAnalysis
    /\ geojson \in Datasets
    /\ InitBoundaryService
    /\ dash = InitDashboard

NextResolve ==
    \/ \E op \in BsOps \ {"getCountryBoundary"} : BsCall(1, op, "")
    \/ \E name \in SearchNames : BsCall(1, "getCountryBoundary", name)
    \/ \E ok \in BOOLEAN : BsFetchSettles(1, ok)
    \/ BsClearCache

SpecResolve == InitResolve /\ [][NextResolve]_vars

\* concurrent callers of BoundaryService
ConcurrentDataset ==
    << Feature("Nigeria", "NG", "NGA", "nga"),
       Feature("Niger", "NE", "NER", "ner") >>

ConcurrentNames == {"Niger", "Atlantis"}

InitBoundary ==
    /\ InitService
    /\ upstream = <<>>
    /\ an = InitAnalysis
    /\ geojson = ConcurrentDataset
    /\ InitBoundaryService
    /\ dash = InitDashboard

NextBoundary ==
    \/ \E c \in BsSlots, op \in BsOps \ {"getCountryBoundary"} : BsCall(c, op, "")
    \/ \E c \in BsSlots, name \in ConcurrentNames :
          BsCall(c, "getCountryBoundary", name)
    \/ \E c \in BsSlots, ok \in BOOLEAN : BsFetchSettles(c, ok)
    \/ BsClearCache

SpecBoundary == InitBoundary /\ [][NextBoundary]_vars

\* the dashboard map over the same collection
NextDashboard ==
    \/ \E name \in DashCountries \cup {""} : BoundaryEffect(name)
    \/ \E c \in BsSlots, ok \in BOOLEAN : BoundaryLoadSettles(c, ok)

SpecDashboard == InitBoundary /\ [][NextDashboard]_vars

-----------------------------------------------------------------------------
(* Claims about one load (SpecLoad) *)

Loaded == dataLoaded /\ lastEvent.op = "settle"

\* a unit that passes the checks of line 114
Located(u) == u.country_details.present /\ u.hasCoords /\ Len(u.coords) = 2

InLatLonRange(lat, lon) ==
    /\ lat >= (0 - 90) * CoordScale /\ lat <= 90 * CoordScale
    /\ lon >= (0 - 180) * CoordScale /\ lon <= 180 * CoordScale

\* C1: after loadAllData has processed a batch, no two facilities of the
\* retained list have the same id.
C1_UniqueIds ==
    dataLoaded =>
        \A i, j \in 1..Len(allFacilities) :
            i # j => allFacilities[i].id # allFacilities[j].id

\* two located, in-range records of the batch share an id and the load went
\* through
C1_Witness ==
    /\ Loaded
    /\ Len(allFacilities) = 1
    /\ \E i, j \in 1..Len(upstream) :
          /\ i # j
          /\ FacilityId(upstream[i]) = FacilityId(upstream[j])
          /\ upstream[i].id # upstream[j].id
          /\ Located(upstream[i]) /\ Located(upstream[j])
          /\ ~OutOfRange(upstream[i].coords[2], upstream[i].coords[1])
          /\ ~OutOfRange(upstream[j].coords[2], upstream[j].coords[1])

\* a coordinate rounded to 6 decimals, in units of 10^-6 degree
Round6(v) == IF v < 0 THEN 0 - ((Abs(v) + 5) \div 10) ELSE (v + 5) \div 10

DedupTuple(f) ==
    <<Round6(f.latitude), Round6(f.longitude), f.country_name, f.name>>

\* C2: no two retained facilities have the same (latitude rounded to 6
\* decimals, longitude rounded to 6 decimals, country_name, name), name being
\* the name stored on the facility.
C2_UniqueLocations ==
    dataLoaded =>
        \A i, j \in 1..Len(allFacilities) :
            i # j => DedupTuple(allFacilities[i]) # DedupTuple(allFacilities[j])

\* C3: every retained facility lies in [-90, 90] x [-180, 180], and the
\* records outside it contribute nothing: the facility list and the country
\* index are those of the batch without them.
C3_InRange ==
    dataLoaded =>
        /\ \A i \in 1..Len(allFacilities) :
              InLatLonRange(allFacilities[i].latitude, allFacilities[i].longitude)
        /\ LET kept(u) == ~Located(u)
                            \/ InLatLonRange(u.coords[2].v, u.coords[1].v)
               rest == LoadResult(SelectSeq(upstream, kept))
           IN  /\ allFacilities = rest.facilities
               /\ allCountries = rest.countries

\* a record east or west of the valid range came with a record that was kept
C3_Witness ==
    /\ Loaded
    /\ Len(allFacilities) >= 1
    /\ \E i \in 1..Len(upstream) :
          /\ Located(upstream[i])
          /\ upstream[i].coords[1].num
          /\ Abs(upstream[i].coords[1].v) > 180 * CoordScale

RECURSIVE SumCounts(_)
SumCounts(countries) ==
    IF countries = <<>> THEN 0
    ELSE Head(countries).facility_count + SumCounts(Tail(countries))

\* C4: whenever the service holds loaded data, the facility_count of the
\* country index sum to the number of retained facilities.
C4_CountConsistency ==
    dataLoaded => SumCounts(allCountries) = Len(allFacilities)

\* a country with two facilities
C4_Witness ==
    /\ Loaded
    /\ \E i \in 1..Len(allCountries) : allCountries[i].facility_count >= 2

\* C19: no country appears twice in the country index: no two entries have
\* the same name, and no two have the same grouping key (iso3, or the name
\* when there is no iso3).
C19_NoCountryTwice ==
    dataLoaded =>
        \A i, j \in 1..Len(allCountries) :
            i # j =>
                /\ allCountries[i].name # allCountries[j].name
                /\ OrStr(allCountries[i].iso3, allCountries[i].name)
                       # OrStr(allCountries[j].iso3, allCountries[j].name)

\* the records of the batch that carry the upstream id of record i
SameIdAs(i) == {j \in 1..Len(upstream) : upstream[j].id = upstream[i].id}

\* the retained facilities that come from the upstream id of record i
RetainedWithIdOf(i) ==
    {k \in 1..Len(allFacilities) : allFacilities[k].id = FacilityId(upstream[i])}

PassesChecks(u) ==
    /\ Located(u)
    /\ u.coords[1].num /\ u.coords[2].num
    /\ InLatLonRange(u.coords[2].v, u.coords[1].v)

LocationKeyOf(u) ==
    LocationKey(u.coords[2], u.coords[1], u.country_details.name, FacilityName(u))

\* a record that passes the checks and whose location key is that of no
\* record with another id
Retainable(i) ==
    /\ PassesChecks(upstream[i])
    /\ \A j \in 1..Len(upstream) :
          (FacilityId(upstream[j]) # FacilityId(upstream[i])
              /\ PassesChecks(upstream[j]))
          => LocationKeyOf(upstream[j]) # LocationKeyOf(upstream[i])

-----------------------------------------------------------------------------
(* Claims about the cache (SpecCache) *)

\* C5: a value stored at time t is what getCache returns until the TTL has
\* elapsed (now <= t + CACHE_DURATION); a getCache after that returns null
\* and leaves the key in neither map.
C5_CacheTTL ==
    (lastEvent.op = "getCache" /\ lastEvent.key \in DOMAIN hist.stored) =>
        LET k == lastEvent.key
            set == hist.stored[k]
        IN  IF now <= set.t + CACHE_DURATION
            THEN lastEvent.value = <<set.v>>
            ELSE /\ lastEvent.value = <<>>
                 /\ k \notin DOMAIN cache
                 /\ k \notin DOMAIN cacheExpiry

\* a getCache after the deadline of a value that was stored: null, evicted
C5_Witness ==
    /\ lastEvent.op = "getCache"
    /\ lastEvent.key \in DOMAIN hist.stored
    /\ now > hist.stored[lastEvent.key].t + CACHE_DURATION
    /\ lastEvent.value = <<>>
    /\ lastEvent.key \notin DOMAIN cache

-----------------------------------------------------------------------------
(* Claims about concurrent calls (Spec) *)

AllSettled == \A c \in Slots : calls[c].pc = "idle"

\* C6: once the TTL of the combined cache entry has elapsed, the next getter
\* call is a cache miss and issues a new upstream request.
C6_ExpiryRefetches ==
    (lastEvent.op \in Getters /\ lastEvent.ttlElapsed) => lastEvent.fetched

\* C7: after clearCache(), the next getCountriesWithFacilities() call issues
\* the upstream fetch and returns the index built from its response.
C7_ClearRefetches ==
    (lastEvent.op = "getCountriesWithFacilities" /\ lastEvent.afterClear) =>
        lastEvent.fetched

serviceState == <<dataLoaded, allFacilities, allCountries, cache, cacheExpiry>>

-----------------------------------------------------------------------------
(* Claims about the analysis run (SpecAnalysis) *)

Running == an.isLoading
Complete == ~an.isLoading /\ an.results # <<>>
Failed == ~an.isLoading /\ an.mapError = AnalysisFailedMsg
IdleRun == ~an.isLoading /\ an.results = <<>> /\ an.mapError # AnalysisFailedMsg

\* C10: the run is in exactly one of Idle, Running, Complete (results
\* present) and Failed (failure message present); in particular a run that
\* succeeds after a failed one ends in Complete with no failure message left.
C10_OneRunState ==
    /\ ~(Complete /\ Failed)
    /\ Running \/ Complete \/ Failed \/ IdleRun

\* a run has just ended in Failed
RunFails == an'.lastRun # an.lastRun /\ an'.lastRun.outcome = "failed"

\* C11: a run started while the connectivity probe has not reported ready
\* goes directly to Failed, the message shown to the user says that the
\* backend is not available, and the run never calls analyzeFromAsset.
C11_UnreadyBackendFailsFast ==
    [][ (~an.isLoading /\ an.backendConnected # "true" /\ RunFails) =>
            /\ ~an'.isLoading
            /\ an'.mapError = BackendUnavailableMsg
            /\ an'.lastRun.analyzeCalls = 0
      ]_vars

\* C12: when a run ends in Failed, whatever preceded it, no result and no
\* overlay is left: results and backendAnalysisResults are null, geeLayers is
\* empty and geeAssetId is undefined.
C12_FailedRunKeepsNothing ==
    [][ RunFails =>
            /\ an'.results = <<>>
            /\ an'.backendAnalysisResults = <<>>
            /\ an'.geeLayers = <<>>
            /\ an'.geeAssetId = <<>>
      ]_vars

\* what createGeeLayersFromAnalysis is to return for the outcomes of its calls
ExpectedLayers(boundary, tile) ==
    (IF boundary = "success" THEN <<"country_boundary">> ELSE <<>>)
        \o (IF tile = "success" THEN <<"accessibility_main">> ELSE <<>>)

InLayerStep(a) == a.run.pc \in {"boundary", "tile"}

\* C17: whatever the outcomes of getCountryBoundary and getTileUrl,
\* createGeeLayersFromAnalysis returns (the run goes on, it does not fail):
\* the layers are the boundary layer iff getCountryBoundary resolved with
\* success, then the accessibility layer iff asset_id is non-empty and
\* getTileUrl resolved with success; assetId is asset_id when non-empty and
\* undefined otherwise; getTileUrl is not called when asset_id is empty.
C17_LayersFromOutcomes ==
    [][ (InLayerStep(an) /\ ~InLayerStep(an')) =>
            LET r == an'.run
                asset_id == an.run.body[1].asset_id
            IN  /\ r.pc = "timer"
                /\ an'.lastRun = an.lastRun
                /\ r.boundary \in Outcomes
                /\ an'.geeLayers = ExpectedLayers(r.boundary, r.tile)
                /\ IF asset_id = ""
                   THEN r.tile = "none" /\ an'.geeAssetId = <<>>
                   ELSE r.tile \in Outcomes /\ an'.geeAssetId = <<asset_id>>
      ]_vars

\* the boundary request was rejected, the tile request succeeded, and the
\* accessibility layer alone is on the map
C17_Witness ==
    /\ an.run.pc = "timer"
    /\ an.run.boundary = "rejected"
    /\ an.run.tile = "success"
    /\ an.geeLayers = <<"accessibility_main">>
    /\ an.geeAssetId = <<"asset">>

\* C18: the boundary request and the tile request run concurrently: while
\* the boundary request is in flight, the tile request (when there is an
\* asset id) has been issued too.
C18_RequestsConcurrent ==
    (an.run.boundary = "pending" /\ an.run.body[1].asset_id # "") =>
        an.run.tile # "none"

\* C18 as the code has it: the tile request is issued only once the boundary
\* request has resolved or rejected.
C18_TileAfterBoundary ==
    an.run.tile # "none" => an.run.boundary \in Outcomes

\* the tile request is in flight after the boundary request was rejected
C18_Witness ==
    /\ an.run.pc = "tile"
    /\ an.run.tile = "pending"
    /\ an.run.boundary = "rejected"

-----------------------------------------------------------------------------
(* Claims about BoundaryService (SpecResolve, SpecBoundary) *)

\* a getCountryBoundary call has completed with the collection at hand
Resolved(ev) ==
    ev.op = "getCountryBoundary" /\ ev.outcome = "resolved" /\ ~ev.threw

\* the lowercase search names of alias group e: the canonical name and its
\* alternatives
AliasGroup(e) ==
    {variations[e].canonical}
        \cup {variations[e].alts[k] : k \in 1..Len(variations[e].alts)}

\* the lowercase form of the search names the formulas speak of
Normalised(name) ==
    CASE name = "USA" -> "usa"
      [] name = "United States" -> "united states"
      [] name = "Congo" -> "congo"
      [] name = "Congo Republic" -> "congo republic"
      [] name = "Niger" -> "niger"
      [] name = "niger" -> "niger"
      [] name = " Niger " -> "niger"
      [] name = "Atlantis" -> "atlantis"
      [] OTHER -> name

\* a getCountryBoundary call completes in this step
GetCompletes ==
    /\ bsVars' # bsVars
    /\ bsEvent'.op = "getCountryBoundary"
    /\ bsEvent'.outcome # "pending"

\* C13: when the collection holds the feature an alias group names, two
\* search names of that group ("USA" and "United States", "Congo" and
\* "Congo Republic") resolve to the same feature.
C13_AliasesResolveAlike ==
    [][ (GetCompletes /\ Resolved(bsEvent') /\ bsHist.lastGet # <<>>) =>
            \A e \in 1..Len(variations) :
                ( /\ Normalised(bsEvent'.name) \in AliasGroup(e)
                  /\ Normalised(bsHist.lastGet[1].name) \in AliasGroup(e)
                  /\ \E i \in 1..Len(geojson) :
                        ToLowerCase(geojson[i].name) = variations[e].canonical )
                => bsEvent'.result = bsHist.lastGet[1].result
      ]_vars

\* the first feature of the collection that satisfies the test, as a set of
\* at most one index
First(S) == {i \in S : \A j \in S : i <= j}

\* C14: on a cache miss getCountryBoundary returns the first feature whose
\* name equals the argument; if there is none, the first whose name equals
\* it ignoring case; if there is none, the first that matches by containment
\* or the alias table; and null if no feature matches at all.
C14_TiersInOrder ==
    (Resolved(bsEvent) /\ ~bsEvent.hit) =>
        LET idx == 1..Len(geojson)
            name == bsEvent.name
            exact == {i \in idx : geojson[i].name = name}
            anyCase == {i \in idx : Matches(geojson[i], name).anyCase}
            partial == {i \in idx : Matches(geojson[i], name).partial}
            winner == IF exact # {} THEN First(exact)
                      ELSE IF anyCase # {} THEN First(anyCase)
                      ELSE First(partial)
        IN  IF winner = {} THEN bsEvent.result = <<>>
            ELSE \E i \in winner : bsEvent.result = <<MakeBoundary(geojson[i])>>

\* the feature with the exact name was returned although a feature that
\* matches by containment comes before it in the collection
C14_Witness ==
    /\ Resolved(bsEvent) /\ ~bsEvent.hit
    /\ Len(geojson) = 2
    /\ geojson[1].name # bsEvent.name
    /\ Matches(geojson[1], bsEvent.name).partial
    /\ geojson[2].name = bsEvent.name
    /\ bsEvent.result = <<MakeBoundary(geojson[2])>>

\* C15: without clearCache and without a failed fetch, the collection is
\* fetched once, whatever the calls and their interleaving.
C15_FetchedOnce ==
    ~bsHist.failed => bsHist.fetches <= 1

\* C16: getCountryBoundary never rejects; it resolves to null when no tier
\* matches (and when the collection cannot be fetched), and then the cache is
\* as it was; a boundary that was found is in the cache under the trimmed
\* lowercase name, and nothing else has changed in the cache.
C16_MissIsNormal ==
    [][ GetCompletes =>
            LET ev == bsEvent'
                none == \A i \in 1..Len(geojson) :
                           /\ geojson[i].name # ev.name
                           /\ ~Matches(geojson[i], ev.name).anyCase
                           /\ ~Matches(geojson[i], ev.name).partial
            IN  /\ ev.outcome = "resolved"
                /\ (none /\ ~ev.hit) => ev.result = <<>>
                /\ ev.result = <<>> => boundaryCache' = boundaryCache
                /\ ev.result # <<>> =>
                       boundaryCache' = MapSet(boundaryCache, Normalised(ev.name),
                                               ev.result[1])
      ]_vars

\* a name that matches nothing resolved to null while the cache held a
\* boundary, and the cache still holds just that
C16_Witness ==
    /\ Resolved(bsEvent) /\ ~bsEvent.hit
    /\ bsEvent.name = "Atlantis"
    /\ bsEvent.result = <<>>
    /\ DOMAIN boundaryCache = {"niger"}
    /\ boundaryCache["niger"].name = "Niger"


-----------------------------------------------------------------------------
(* Claims about clearCache() and the cache of the service (Spec,             *)
(* SpecServices)                                                            *)

\* C25: a load that was in flight when clearCache() ran installs nothing when
\* it settles: the flag, both arrays and the cache stay as they were.
C25_ClearedLoadInstallsNothing ==
    [][ \A c \in Slots :
           (calls[c].pc = "pending" /\ calls[c].cleared /\ calls'[c].pc = "idle")
               => UNCHANGED serviceState
      ]_vars

\* C27: in IFRCService and in IFRCProxyService, whenever the cache holds the
\* combined entry dataLoaded is true, so a load never finds a live entry to
\* adopt, and the value map and the expiry map hold the same keys.
C27_CacheImpliesLoaded ==
    LET key == IF service = "IFRCProxyService" THEN ProxyCacheKey
               ELSE CacheKey
    IN  /\ key \in DOMAIN cache => dataLoaded
        /\ ~dataLoaded => ~GetCache(cache, cacheExpiry, key, now).hit
        /\ DOMAIN cache = DOMAIN cacheExpiry

\* the combined entry is held past its expiry time while the data is loaded,
\* and a getter has just returned without looking at the cache
C27_Witness ==
    /\ CacheKey \in DOMAIN cache
    /\ now > cacheExpiry[CacheKey]
    /\ dataLoaded
    /\ lastEvent.op \in Getters
    /\ lastEvent.outcome = "returned"


-----------------------------------------------------------------------------
(* Claims about the filtering getters (SpecLoad) *)

\* C29: for every entry c of the country index, getFacilitiesByCountry(c.name)
\* returns exactly c.facility_count facilities.
C29_CountMatchesByCountry ==
    dataLoaded =>
        \A i \in 1..Len(allCountries) :
            Len(GetFacilitiesByCountry(allFacilities, allCountries[i].name))
                = allCountries[i].facility_count

Whitespace == {" "}

\* the term is empty or holds nothing but white space
Blank(term) == \A i \in 1..Len(term) : SubSeq(term, i, i) \in Whitespace

\* term occurs in name at offset k, letter case aside
OccursAt(name, term, k) ==
    \A i \in 1..Len(term) :
        LowerChar(SubSeq(name, k + i, k + i)) = LowerChar(SubSeq(term, i, i))

ContainsIgnoringCase(name, term) ==
    \E k \in 0..(Len(name) - Len(term)) : OccursAt(name, term, k)

BlankTerms == {t \in SearchTerms : Blank(t)}

ContainingNames ==
    [t \in SearchTerms |->
        {n \in FacilityNames : ContainsIgnoringCase(n, t)}]

\* the facilities searchFacilities(term, country) is to return
Wanted(term, country) ==
    {f \in Elements(allFacilities) :
        /\ country # "" => f.country_name = country
        /\ term \notin BlankTerms => f.name \in ContainingNames[term]}

\* C21: searchFacilities(term, country) returns, in the order of the list,
\* exactly the facilities of that country (all of them without a country)
\* when the term is blank, and those of them whose name contains the term,
\* letter case aside, when it is not.
C21_SearchFilters ==
    dataLoaded =>
        \A term \in SearchTerms, country \in SearchCountries :
            SearchFacilities(allFacilities, term, country)
                = FilterFacilities(allFacilities, Wanted(term, country))

\* a loaded list that a lower-case term divides: it finds a facility whose
\* name is written in upper case and leaves another one out, and the blank
\* term returns both
C21_Witness ==
    /\ Loaded
    /\ Len(SearchFacilities(allFacilities, "y", "")) = 1
    /\ Len(SearchFacilities(allFacilities, "  ", "")) = 2
    /\ Len(SearchFacilities(allFacilities, "  ", "Chad")) = 1


-----------------------------------------------------------------------------
(* Claims about the course of a run (SpecAnalysis, SpecAnalysisFair) *)

\* a run has just ended, failed or not
RunEnds == an'.lastRun # an.lastRun

\* C22: a run that passes the connectivity check calls analyzeFromAsset
\* exactly once, in the fifth of the six stages and after four timers have
\* fired; a run that fails the check ends at once without calling it.
C22_OneCallInFifthStage ==
    [][ /\ an'.run.analyzeCalls > an.run.analyzeCalls =>
              /\ an.run.analyzeCalls = 0
              /\ an'.run.analyzeCalls = 1
              /\ an.run.pc = "timer"
              /\ an.run.i = NumSteps - 3
              /\ an'.run.i = NumSteps - 2
              /\ an'.progress = NumSteps - 1
        /\ (RunEnds /\ an.run.pc = "none") =>
              /\ an.backendConnected # "true"
              /\ an'.lastRun.analyzeCalls = 0
        /\ (RunEnds /\ an.run.pc # "none") =>
              an'.lastRun.analyzeCalls = 1
        /\ (an.run.pc = "none" /\ an'.run.pc # "none") =>
              /\ an.backendConnected = "true"
              /\ an'.run.i = 0
              /\ an'.run.analyzeCalls = 0
      ]_vars

\* a run went through all six stages and had called analyzeFromAsset once
C22_Witness ==
    /\ an.lastRun.outcome = "returned"
    /\ an.lastRun.analyzeCalls = 1
    /\ ~an.isLoading

\* C23: a run that leaves Running has reached Complete or Failed, with
\* isLoading false and progress 0.
C23_EndsCompleteOrFailed ==
    [][ (an.isLoading /\ ~an'.isLoading) =>
            /\ an'.progress = 0
            /\ (~an'.isLoading /\ an'.results # <<>>)
                   \/ (~an'.isLoading /\ an'.mapError = AnalysisFailedMsg)
      ]_vars

\* every started run leaves Running, with progress reset to 0, when timers
\* fire and requests settle
C23_RunTerminates ==
    an.isLoading ~> (~an.isLoading /\ an.progress = 0 /\ an.run.pc = "none")

\* C26: results and overlay layers belong to the current selection: results,
\* when not null, and geeLayers, when not empty, come from a run for the
\* country that is selected.
C26_ResultsOfSelection ==
    /\ an.results # <<>> => an.results[1].country = an.selectedCountry
    /\ an.geeLayers # <<>> => an.layersFor = an.selectedCountry


-----------------------------------------------------------------------------
(* Claims about the name cache of BoundaryService (SpecResolve) *)

\* C28: for a fixed collection, what getCountryBoundary(name) returns does
\* not depend on the names resolved before: it is what the three finds
\* return for that name when the cache is empty.
C28_CacheAgreesWithMatching ==
    Resolved(bsEvent) =>
        bsEvent.result = AfterLookup(EmptyMap, bsEvent.name, geojson).result


-----------------------------------------------------------------------------
(* Claims about the boundary layer of the dashboard map (SpecDashboard) *)

\* C24: at most one country-boundary layer is on the dashboard map at any
\* time, whatever the selections and however the loads overlap.
C24_OneBoundaryLayer == Len(dash.mapLayers) <= 1

LoadsSettled == \A c \in BsSlots : ~dash.loads[c]

\* C30: once every boundary load has settled, a boundary layer on the map is
\* the one loaded for the selected country, and there is none when no
\* country is selected.
C30_LayerOfSelection ==
    LoadsSettled =>
        \A i \in 1..Len(dash.mapLayers) :
            /\ dash.countryName # ""
            /\ dash.mapLayers[i].for = dash.countryName

====
